---- MODULE Spec2Model ----
(***************************************************************************)
(* Model of the TikTok live relay: src/main.py (FastAPI application with   *)
(* the replay buffer event_buffer, the registry active_connections, the    *)
(* fan-out callback broadcast_to_websockets and the /ws handler            *)
(* websocket_endpoint) and src/tiktok_client.py (TikTokService, the        *)
(* upstream adapter).                                                      *)
(*                                                                         *)
(* Everything runs on one asyncio event loop: the code between two awaits  *)
(* is atomic, and every `await x.send_json(..)` is a suspension point.     *)
(* A send_json call hands the message to the connection (or finds the      *)
(* connection gone) when it is called, so that the messages of one         *)
(* connection arrive in the order of the calls; the caller is then         *)
(* suspended until the send returns or raises, and other coroutines run    *)
(* meanwhile.                                                              *)
(***************************************************************************)
EXTENDS Integers, Sequences, FiniteSets, TLC

\* Number of websocket connections (each WebSocket object connects once).
NumSubs == 2
\* Number of upstream events the model lets the client emit.
MaxEvents == 4
\* src/main.py:19 sets MAX_BUFFER_SIZE = 50; scaled down so that eviction
\* happens within MaxEvents events.
MAX_BUFFER_SIZE == 3

Subs == 1..NumSubs

\* The four handlers of TikTokService._setup_handlers.
Kinds == {"connect", "disconnect", "comment", "gift"}

VARIABLES
    event_buffer,        \* main.py: event_buffer (list)
    active_connections,  \* main.py: active_connections (set)
    is_connected,        \* TikTokService.is_connected
    bpc,                 \* position of the upstream handler / broadcast_to_websockets
    data,                \* broadcast_to_websockets: data
    disconnected,        \* broadcast_to_websockets: disconnected
    itSize,              \* set iterator: size of the set when the iterator was made
    todo,                \* set iterator: entries still ahead of the iterator
    connection,          \* broadcast_to_websockets: loop variable connection
    sendRes,             \* outcome of the send the broadcast is suspended in
    wpc,                 \* position of each websocket_endpoint coroutine
    ridx,                \* list iterator of the replay loop: next index (0-based)
    rRes,                \* outcome of the replay send the handler is suspended in
    sock,                \* state of the client connection behind each WebSocket
    \* history variables
    history,             \* every event appended to event_buffer, in order
    received,            \* per websocket: the event ids delivered, in order
    regAt,               \* per websocket: Len(history) when it was registered
    passStart,           \* active_connections when the current/last pass began
    passLog,             \* send attempts of the current/last pass, in order
    passEnd,             \* how the current/last pass ended
    passMutated,         \* active_connections was changed by a handler during the pass
    failAt,              \* per websocket: Len(history) when its replay hit `break`, else -1
    resp                 \* the response built by the HTTP handler that ran in the last step

vars == <<event_buffer, active_connections, is_connected, bpc, data, disconnected,
          itSize, todo, connection, sendRes, wpc, ridx, rRes, sock,
          history, received, regAt, passStart, passLog, passEnd, passMutated,
          failAt, resp>>

\* Everything but the response of the last HTTP request.
hub == <<event_buffer, active_connections, is_connected, bpc, data, disconnected,
         itSize, todo, connection, sendRes, wpc, ridx, rRes, sock,
         history, received, regAt, passStart, passLog, passEnd, passMutated,
         failAt>>

NoSub == 0
NoEvent == [id |-> 0, type |-> "none"]
\* No HTTP handler ran in the last step.
NoResp == [kind |-> "none"]

----------------------------------------------------------------------------
\* BufferAppend with pop() in place of pop(0): the newest entry is dropped.
BufferAppendPopsNewest(buf, d) ==
    LET b == Append(buf, d)
    IN  IF Len(b) > MAX_BUFFER_SIZE THEN SubSeq(b, 1, Len(b) - 1) ELSE b

\* BufferAppend with the eviction one entry late (len > MAX_BUFFER_SIZE + 1).
BufferAppendEvictsLate(buf, d) ==
    LET b == Append(buf, d)
    IN  IF Len(b) > MAX_BUFFER_SIZE + 1 THEN Tail(b) ELSE b

\* main.py:32-34: append, then drop the oldest entry when over capacity.
BufferAppend(buf, d) ==
    LET b == Append(buf, d)
    IN  IF Len(b) > MAX_BUFFER_SIZE THEN Tail(b) ELSE b

\* main.py:183-189: the /api/events response.
get_recent_events ==
    [events |-> event_buffer, count |-> Len(event_buffer)]

\* get_status reporting the capacity of the buffer in place of its length.
get_status_capacity ==
    [connected |-> is_connected,
     active_websockets |-> Cardinality(active_connections),
     buffered_events |-> MAX_BUFFER_SIZE]

\* main.py:172-180: the /api/status response (username is configuration).
get_status ==
    [connected |-> is_connected,
     active_websockets |-> Cardinality(active_connections),
     buffered_events |-> Len(event_buffer)]

\* FlagAfter with on_disconnect leaving the flag as it is.
FlagAfterKeepsOnDisconnect(kind, flag) ==
    IF kind = "connect" THEN TRUE ELSE flag

\* tiktok_client.py:16 and :25: the lifecycle handlers set the flag first.
FlagAfter(kind, flag) ==
    CASE kind = "connect" -> TRUE
      [] kind = "disconnect" -> FALSE
      [] OTHER -> flag

\* tiktok_client.py:17-21, 26-29, 33-39 and 44-55: the dict a handler
\* builds for its n-th event.  Of its fields the model keeps which
\* announcement a system event is; the payload of a comment or a gift
\* (sender, text, gift, cost, timestamp) is left out.
EventDict(kind, n) ==
    [id |-> n,
     type |-> IF kind \in {"comment", "gift"} THEN "viewer" ELSE kind]

\* main.py:40 and :160, `await ws.send_json(..)`: the message is delivered
\* ("ok"); or the client is gone and the call raises ("raise"); or the
\* client has stopped reading and the call never returns ("block").
SendJson(s) ==
    CASE sock[s] = "open" -> "ok"
      [] sock[s] = "broken" -> "raise"
      [] OTHER -> "block"

\* What the websockets have received after send_json(d) on websocket s.
Delivered(s, d) ==
    IF SendJson(s) = "ok"
    THEN [received EXCEPT ![s] = Append(@, d.id)]
    ELSE received

Init ==
    /\ event_buffer = << >>
    /\ active_connections = {}
    /\ is_connected = FALSE
    /\ bpc = "idle"
    /\ data = NoEvent
    /\ disconnected = {}
    /\ itSize = 0
    /\ todo = {}
    /\ connection = NoSub
    /\ sendRes = "ok"
    /\ wpc = [s \in Subs |-> "init"]
    /\ ridx = [s \in Subs |-> 0]
    /\ rRes = [s \in Subs |-> "ok"]
    /\ sock = [s \in Subs |-> "open"]
    /\ history = << >>
    /\ received = [s \in Subs |-> << >>]
    /\ regAt = [s \in Subs |-> -1]
    /\ passStart = {}
    /\ passLog = << >>
    /\ passEnd = "none"
    /\ passMutated = FALSE
    /\ failAt = [s \in Subs |-> -1]
    /\ resp = NoResp

----------------------------------------------------------------------------
(***************************************************************************)
(* The upstream handler: on_connect / on_disconnect / on_comment / on_gift *)
(* (tiktok_client.py:14-56) -> _broadcast (58-64) -> the registered        *)
(* callback broadcast_to_websockets (main.py:30-45).  The client emits     *)
(* one event at a time and every handler awaits the whole fan-out.         *)
(***************************************************************************)

\* main.py:38-45, from one next() of the set iterator to the next await (or
\* to the return).  The iterator was made when the set had `size` entries;
\* `ahead` are the entries it has not passed yet; `disc` is `disconnected`,
\* `d` the event and `log` the attempts so far.
\*  - next() raises RuntimeError("Set changed size during iteration") when
\*    the set's size differs from `size`; the exception leaves
\*    broadcast_to_websockets (main.py:45 is skipped) and is caught and
\*    printed by _broadcast (tiktok_client.py:63-64);
\*  - when the iterator is exhausted, main.py:45 removes the connections
\*    marked in this pass and the callback returns;
\*  - otherwise send_json is called on the next connection.
LoopNext(size, ahead, disc, d, log) ==
    IF Cardinality(active_connections) # size
    THEN /\ bpc' = "idle"
         /\ passEnd' = "aborted"
         /\ connection' = NoSub
         /\ todo' = {}
         /\ itSize' = 0
         /\ disconnected' = {}
         /\ data' = NoEvent
         /\ sendRes' = "ok"
         /\ passLog' = log
         /\ UNCHANGED <<active_connections, received>>
    ELSE IF ahead = {}
    THEN /\ bpc' = "idle"
         /\ passEnd' = "complete"
         /\ active_connections' = active_connections \ disc
         /\ connection' = NoSub
         /\ todo' = {}
         /\ itSize' = 0
         /\ disconnected' = {}
         /\ data' = NoEvent
         /\ sendRes' = "ok"
         /\ passLog' = log
         /\ UNCHANGED received
    ELSE \E c \in ahead :
         /\ bpc' = "send"
         /\ passEnd' = "running"
         /\ connection' = c
         /\ todo' = ahead \ {c}
         /\ itSize' = size
         /\ disconnected' = disc
         /\ data' = d
         /\ sendRes' = SendJson(c)
         /\ received' = Delivered(c, d)
         /\ passLog' = Append(log, [sub |-> c, res |-> SendJson(c)])
         /\ UNCHANGED active_connections

\* The TikTokLiveClient behind the handlers (tiktok_client.py:8): it emits
\* ConnectEvent when it has connected to the live, CommentEvent and
\* GiftEvent while it is connected, and DisconnectEvent when that
\* connection ends.
ClientEmits(kind) ==
    IF kind = "connect" THEN ~is_connected ELSE is_connected

\* tiktok_client.py:15-56 and main.py:30-40, up to the first await that
\* suspends: the handler sets the flag (lifecycle events) and builds the
\* dict; broadcast_to_websockets appends it, makes the set iterator and
\* calls the first send_json (or finds no connection and returns).
IngestStart(kind) ==
    /\ bpc = "idle"
    /\ Len(history) < MaxEvents
    /\ ClientEmits(kind)
    /\ LET d == EventDict(kind, Len(history) + 1)
       IN  /\ is_connected' = FlagAfter(kind, is_connected)
           /\ event_buffer' = BufferAppend(event_buffer, d)
           /\ history' = Append(history, d)
           /\ LoopNext(Cardinality(active_connections), active_connections,
                       {}, d, << >>)
    /\ passStart' = active_connections
    /\ passMutated' = FALSE
    /\ UNCHANGED <<wpc, ridx, rRes, sock, regAt, failAt>>
    /\ resp' = NoResp

\* Marked with the connection added to `disconnected` after every send.
MarkedAlways(res, disc, c) == disc \cup {c}

\* Marked with the test inverted: the connection is marked when its send
\* succeeded.
MarkedOnSuccess(res, disc, c) == IF res = "ok" THEN disc \cup {c} ELSE disc

\* main.py:41-42: what the except clause adds to `disconnected`.
Marked(res, disc, c) == IF res = "raise" THEN disc \cup {c} ELSE disc

\* IngestResume with `break` in the except clause: the first failed send
\* ends the loop and main.py:45 runs at once.
IngestResumeBreaks ==
    /\ bpc = "send"
    /\ sendRes # "block"
    /\ LoopNext(itSize, IF sendRes = "raise" THEN {} ELSE todo,
                Marked(sendRes, disconnected, connection), data, passLog)
    /\ UNCHANGED <<event_buffer, is_connected, wpc, ridx, rRes, sock, history,
                   regAt, passStart, passMutated, failAt>>
    /\ resp' = NoResp

\* IngestResume without the try/except of main.py:39-42 and of
\* tiktok_client.py:61-64: a send that raises ends the upstream handler.
IngestResumeRaises ==
    /\ bpc = "send"
    /\ sendRes # "block"
    /\ IF sendRes = "raise"
       THEN /\ bpc' = "raised"
            /\ passEnd' = "raised"
            /\ UNCHANGED <<connection, todo, itSize, disconnected, data, sendRes,
                           passLog, active_connections, received>>
       ELSE LoopNext(itSize, todo, disconnected, data, passLog)
    /\ UNCHANGED <<event_buffer, is_connected, wpc, ridx, rRes, sock, history,
                   regAt, passStart, passMutated, failAt>>
    /\ resp' = NoResp

\* main.py:38-45: the send returns or raises and the broadcast resumes: the
\* except clause marks the connection when the send raised, and the loop
\* goes on with the next connection.
IngestResume ==
    /\ bpc = "send"
    /\ sendRes # "block"
    /\ LoopNext(itSize, todo, Marked(sendRes, disconnected, connection),
                data, passLog)
    /\ UNCHANGED <<event_buffer, is_connected, wpc, ridx, rRes, sock, history,
                   regAt, passStart, passMutated, failAt>>
    /\ resp' = NoResp

----------------------------------------------------------------------------
(***************************************************************************)
(* websocket_endpoint (main.py:151-169), one coroutine per connection.     *)
(***************************************************************************)

\* main.py:158-160, `for event in event_buffer`: one next() of the list
\* iterator at index i (0-based) and the send_json that follows.  The
\* iterator reads the live list: it yields event_buffer[i] when
\* i < len(event_buffer) and stops otherwise; after the loop the handler
\* waits in receive_text() (main.py:164-167).
ReplayNext(s, i) ==
    IF i < Len(event_buffer)
    THEN /\ ridx' = [ridx EXCEPT ![s] = i + 1]
         /\ wpc' = [wpc EXCEPT ![s] = "replay"]
         /\ rRes' = [rRes EXCEPT ![s] = SendJson(s)]
         /\ received' = Delivered(s, event_buffer[i + 1])
    ELSE /\ ridx' = [ridx EXCEPT ![s] = 0]
         /\ wpc' = [wpc EXCEPT ![s] = "receive"]
         /\ rRes' = [rRes EXCEPT ![s] = "ok"]
         /\ UNCHANGED received

\* A set that gains an entry while an iterator is suspended in it: the new
\* entry lands in a slot ahead of the iterator or behind it.
AheadAfterAdd(s) ==
    IF bpc = "idle" THEN {todo} ELSE {todo, todo \cup {s}}

\* main.py:154-160: accept() returns, the websocket is registered, and the
\* replay loop calls its first send_json (or finds the buffer empty and
\* goes to the receive loop).
Accept(s) ==
    /\ wpc[s] = "init"
    /\ active_connections' = active_connections \cup {s}
    /\ todo' \in AheadAfterAdd(s)
    /\ regAt' = [regAt EXCEPT ![s] = Len(history)]
    /\ ReplayNext(s, 0)
    /\ passMutated' = (passMutated \/ bpc # "idle")
    /\ UNCHANGED <<event_buffer, is_connected, bpc, data, disconnected, itSize,
                   connection, sendRes, sock, history, passStart, passLog,
                   passEnd, failAt>>
    /\ resp' = NoResp

\* ReplayResume with `continue` in the except clause: the replay goes on to
\* the next buffered event after a failed send.
ReplayResumeContinues(s) ==
    /\ wpc[s] = "replay"
    /\ rRes[s] # "block"
    /\ ReplayNext(s, ridx[s])
    /\ failAt' = IF rRes[s] = "raise"
                 THEN [failAt EXCEPT ![s] = Len(history)]
                 ELSE failAt
    /\ UNCHANGED <<event_buffer, active_connections, is_connected, bpc, data,
                   disconnected, itSize, todo, connection, sendRes, sock,
                   history, regAt, passStart, passLog, passEnd, passMutated>>
    /\ resp' = NoResp

\* main.py:158-167: the replay send returns or raises and the handler
\* resumes: `break` when it raised, the next buffered event otherwise.
ReplayResume(s) ==
    /\ wpc[s] = "replay"
    /\ rRes[s] # "block"
    /\ IF rRes[s] = "raise"
       THEN /\ ridx' = [ridx EXCEPT ![s] = 0]
            /\ wpc' = [wpc EXCEPT ![s] = "receive"]
            /\ rRes' = [rRes EXCEPT ![s] = "ok"]
            /\ failAt' = [failAt EXCEPT ![s] = Len(history)]
            /\ UNCHANGED received
       ELSE /\ ReplayNext(s, ridx[s])
            /\ UNCHANGED failAt
    /\ UNCHANGED <<event_buffer, active_connections, is_connected, bpc, data,
                   disconnected, itSize, todo, connection, sendRes, sock,
                   history, regAt, passStart, passLog, passEnd, passMutated>>
    /\ resp' = NoResp

\* main.py:167-169: receive_text() raises WebSocketDisconnect and the
\* handler runs active_connections.remove(websocket); set.remove raises
\* KeyError when the websocket is not in the set, and the handler dies with
\* that exception.
Disconnect(s) ==
    /\ wpc[s] = "receive"
    /\ sock[s] = "broken"
    /\ IF s \in active_connections
       THEN /\ active_connections' = active_connections \ {s}
            /\ todo' = todo \ {s}
            /\ wpc' = [wpc EXCEPT ![s] = "closed"]
            /\ passMutated' = (passMutated \/ bpc # "idle")
       ELSE /\ wpc' = [wpc EXCEPT ![s] = "error"]
            /\ UNCHANGED <<active_connections, todo, passMutated>>
    /\ UNCHANGED <<event_buffer, is_connected, bpc, data, disconnected, itSize,
                   connection, sendRes, ridx, rRes, sock, history,
                   received, regAt, passStart, passLog, passEnd, failAt>>
    /\ resp' = NoResp

----------------------------------------------------------------------------
(***************************************************************************)
(* The clients behind the websockets (the transport layer).                *)
(***************************************************************************)

\* The client goes away: from now on every send_json on this websocket
\* raises, and receive_text raises WebSocketDisconnect.
ClientDrop(s) ==
    /\ wpc[s] \notin {"init", "closed", "error"}
    /\ sock[s] = "open"
    /\ sock' = [sock EXCEPT ![s] = "broken"]
    /\ UNCHANGED <<event_buffer, active_connections, is_connected, bpc, data,
                   disconnected, itSize, todo, connection, sendRes, wpc, ridx,
                   rRes, history, received, regAt, passStart, passLog, passEnd,
                   passMutated, failAt>>
    /\ resp' = NoResp

\* The client stops reading for good while its connection stays up: a
\* send_json on this websocket never returns (the code sets no timeout).
ClientStall(s) ==
    /\ wpc[s] \notin {"init", "closed", "error"}
    /\ sock[s] = "open"
    /\ sock' = [sock EXCEPT ![s] = "stalled"]
    /\ UNCHANGED <<event_buffer, active_connections, is_connected, bpc, data,
                   disconnected, itSize, todo, connection, sendRes, wpc, ridx,
                   rRes, history, received, regAt, passStart, passLog, passEnd,
                   passMutated, failAt>>
    /\ resp' = NoResp

----------------------------------------------------------------------------
(***************************************************************************)
(* The HTTP queries (main.py:172-189).  Neither handler contains an await: *)
(* it builds its response from the module state in one step.               *)
(***************************************************************************)

\* GET /api/status.
GetStatus ==
    /\ resp' = [kind |-> "status", body |-> get_status]
    /\ UNCHANGED hub

\* GET /api/events.
GetRecentEvents ==
    /\ resp' = [kind |-> "events", body |-> get_recent_events]
    /\ UNCHANGED hub

Next ==
    \/ \E k \in Kinds : IngestStart(k)
    \/ IngestResume
    \/ \E s \in Subs : Accept(s)
    \/ \E s \in Subs : ReplayResume(s)
    \/ \E s \in Subs : Disconnect(s)
    \/ \E s \in Subs : ClientDrop(s)
    \/ \E s \in Subs : ClientStall(s)

Spec == Init /\ [][Next]_vars

\* The same system with HTTP clients querying it at any moment.
NextWithQueries ==
    \/ Next
    \/ GetStatus
    \/ GetRecentEvents

SpecWithQueries == Init /\ [][NextWithQueries]_vars

----------------------------------------------------------------------------
(***************************************************************************)
(* Properties.                                                             *)
(***************************************************************************)

Ids(seq) == [i \in 1..Len(seq) |-> seq[i].id]

\* The pass that fanned out event id e is over.
PassOver(e) == e < Len(history) \/ (e = Len(history) /\ bpc = "idle")

\* The positions of passLog at which a send to t was attempted.
Attempts(t) == {i \in 1..Len(passLog) : passLog[i].sub = t}

\* C1: after N ingests the /api/events response holds exactly the last
\* min(N, MAX_BUFFER_SIZE) ingested events, in ingestion order.
C1_BufferIsLastC ==
    LET n == Len(history)
        k == IF n > MAX_BUFFER_SIZE THEN MAX_BUFFER_SIZE ELSE n
    IN  /\ get_recent_events.events = SubSeq(history, n - k + 1, n)
        /\ get_recent_events.count = k

\* C1 witness: more events than the capacity were ingested and the oldest
\* one is gone from the response.
C1_Witness ==
    /\ Len(history) > MAX_BUFFER_SIZE
    /\ Ids(get_recent_events.events) =
           [i \in 1..MAX_BUFFER_SIZE |-> Len(history) - MAX_BUFFER_SIZE + i]

\* C2 (as claimed): no websocket receives the same event twice, replay and
\* live sends together.
C2_NoDuplicate ==
    \A s \in Subs : \A i, j \in 1..Len(received[s]) :
        i # j => received[s][i] # received[s][j]

\* C3 (as claimed, in the form a finite run refutes): a websocket that was
\* registered before event e was ingested, whose client never went away or
\* stalled, and which has finished its replay, has received e once the pass
\* for e is over (no later step sends e to it).
C3_NoGap ==
    \A s \in Subs : \A e \in 1..Len(history) :
        ( /\ regAt[s] >= 0
          /\ e > regAt[s]
          /\ sock[s] = "open"
          /\ wpc[s] = "receive"
          /\ PassOver(e) )
        => \E i \in 1..Len(received[s]) : received[s][i] = e

\* C4: a pass during which no handler changed the registry runs to the end
\* of the loop whatever sends failed in it: every connection registered
\* when it started got exactly one send attempt, and each attempt that did
\* not raise delivered the event.
C4_FailureIsolated ==
    (passEnd \in {"complete", "aborted"} /\ ~passMutated) =>
        /\ passEnd = "complete"
        /\ \A t \in passStart :
              /\ Cardinality(Attempts(t)) = 1
              /\ \A i \in Attempts(t) :
                    passLog[i].res = "ok" =>
                        \E j \in 1..Len(received[t]) :
                            received[t][j] = Len(history)

\* C4 witness: a finished, undisturbed pass in which a send failed and a
\* later send to another connection succeeded.
C4_Witness ==
    /\ passEnd = "complete"
    /\ ~passMutated
    /\ \E i, j \in 1..Len(passLog) :
          /\ i < j
          /\ passLog[i].res = "raise"
          /\ passLog[j].res = "ok"
          /\ Len(history) = received[passLog[j].sub][Len(received[passLog[j].sub])]

\* C5 (as claimed): the detach at the end of a handler never raises.
C5_DetachNeverFails ==
    \A s \in Subs : wpc[s] # "error"

SnapshotLo(s) ==
    IF regAt[s] > MAX_BUFFER_SIZE THEN regAt[s] - MAX_BUFFER_SIZE + 1 ELSE 1
SnapshotLen(s) == regAt[s] - SnapshotLo(s) + 1

\* C7 (as claimed): what a websocket receives starts with exactly the
\* events that were buffered when it attached, in buffer order, before any
\* event ingested later; a healthy websocket has them all once its replay
\* is over.
C7_ReplayBeforeLive ==
    \A s \in Subs :
        regAt[s] >= 0 =>
            /\ \A i \in 1..Len(received[s]) :
                  i <= SnapshotLen(s) => received[s][i] = SnapshotLo(s) + i - 1
            /\ (wpc[s] = "receive" /\ sock[s] = "open") =>
                  Len(received[s]) >= SnapshotLen(s)

\* C8 (as claimed): no websocket receives an event after an event that was
\* ingested later.
C8_InOrder ==
    \A s \in Subs : \A i, j \in 1..Len(received[s]) :
        i < j => received[s][i] <= received[s][j]

\* C9 (as claimed, in the form a finite run refutes): the fan-out is never
\* held in a send that never completes while another healthy connection,
\* registered since before the pass began, has not been sent the event of
\* that pass (nothing else sends it the event, and the upstream handler
\* stays inside this await).
C9_NoHeadOfLineBlocking ==
    \A t \in Subs :
        ~ ( /\ bpc = "send"
            /\ sendRes = "block"
            /\ ~passMutated
            /\ t \in passStart
            /\ t \in todo
            /\ sock[t] = "open"
            /\ wpc[t] = "receive"
            /\ \A i \in 1..Len(received[t]) : received[t][i] # data.id )

\* C10 (as claimed): a pass that is over attempted exactly one send to each
\* connection that was registered when it started, and to no other.
C10_AtomicIteration ==
    passEnd \in {"complete", "aborted"} =>
        /\ \A t \in passStart : Cardinality(Attempts(t)) = 1
        /\ \A i \in 1..Len(passLog) : passLog[i].sub \in passStart

\* The event ids websocket s has been sent successfully.
Got(s) == {received[s][i] : i \in 1..Len(received[s])}

\* C11 (as claimed): the replay skips no buffered entry.  Once the replay
\* of a healthy websocket is over, every event that was in the buffer when
\* the replay started and is in the buffer still (so it was never evicted)
\* has been sent to the websocket.
C11_ReplaySkipsNothing ==
    \A s \in Subs :
        (regAt[s] >= 0 /\ wpc[s] = "receive" /\ sock[s] = "open") =>
            \A i \in 1..Len(event_buffer) :
                event_buffer[i].id <= regAt[s] => event_buffer[i].id \in Got(s)

\* Websocket s was taken out of the registry by the cleanup of a pass
\* (main.py:45) that was over before the current/last pass began.
RemovedEarlier(s) ==
    /\ regAt[s] >= 0
    /\ s \notin active_connections
    /\ wpc[s] \in {"replay", "receive", "error"}
    /\ s \notin passStart

\* C12: no failed send ends the upstream handler or stops later ingests.
\* The handler is always either idle or inside a fan-out (no exception of a
\* send has left it); and a pass begun after an earlier pass removed a
\* failed websocket has appended its event to the buffer and, when no
\* handler changed the registry during it, has run to the end of the loop
\* with one send attempt to every connection that was left.
C12_IngestSurvivesSendFailures ==
    /\ bpc \in {"idle", "send"}
    /\ \A s \in Subs :
          (RemovedEarlier(s) /\ Len(history) > regAt[s]) =>
              /\ event_buffer[Len(event_buffer)].id = Len(history)
              /\ (passEnd \in {"complete", "aborted"} /\ ~passMutated) =>
                    /\ passEnd = "complete"
                    /\ \A t \in passStart : Cardinality(Attempts(t)) = 1

\* C12 witness: after a pass that removed a failed websocket, a later
\* ingest was appended, fanned out to a websocket that had been registered
\* no later than the failed one and was left, and returned.
C12_Witness ==
    \E s, t \in Subs :
        /\ RemovedEarlier(s)
        /\ bpc = "idle"
        /\ passEnd = "complete"
        /\ t \in passStart
        /\ regAt[t] <= regAt[s]
        /\ Len(history) \in Got(t)
        /\ event_buffer[Len(event_buffer)].id = Len(history)

\* C13 (as claimed): the removals are applied after the pass.  Once a pass
\* is over, every websocket whose send raised in that pass is out of the
\* registry (so that no later pass attempts a send to it).
C13_FailedAreUnregisteredAfterPass ==
    bpc = "idle" =>
        \A i \in 1..Len(passLog) :
            passLog[i].res = "raise" => passLog[i].sub \notin active_connections

\* C14: in every state, whatever the interleaving of ingests, attaches,
\* detaches and queries, the buffer holds at most MAX_BUFFER_SIZE entries,
\* and so does every response a query has built from it.
C14_BufferBounded ==
    /\ Len(event_buffer) <= MAX_BUFFER_SIZE
    /\ resp.kind = "events" =>
          /\ Len(resp.body.events) <= MAX_BUFFER_SIZE
          /\ resp.body.count <= MAX_BUFFER_SIZE
    /\ resp.kind = "status" => resp.body.buffered_events <= MAX_BUFFER_SIZE

\* C14 witness: more events than the capacity have been ingested, a replay
\* is reading the buffer, and GET /api/events has just returned a full
\* buffer.
C14_Witness ==
    /\ Len(history) > MAX_BUFFER_SIZE
    /\ \E s \in Subs : wpc[s] = "replay"
    /\ resp.kind = "events"
    /\ resp.body.count = MAX_BUFFER_SIZE

\* The last event ingested, NoEvent when there is none.
LastIngested == IF history = << >> THEN NoEvent ELSE history[Len(history)]

\* C15 (as claimed): the step in which the upstream connects sets the
\* flag, appends the connect announcement to the buffer and starts its
\* fan-out over the connections registered at that moment; the step in
\* which the upstream disconnects clears the flag and does the same with
\* the disconnect announcement.  When the pass of an announcement is over,
\* a send of it to every connection registered at that moment was
\* attempted.
C15_LifecycleEventIngested ==
    [][ /\ \A k \in {"connect", "disconnect"} :
              (Len(history') = Len(history) + 1 /\ LastIngested'.type = k) =>
                  /\ is_connected' = (k = "connect")
                  /\ event_buffer'[Len(event_buffer')] = LastIngested'
                  /\ passStart' = active_connections
                  /\ active_connections # {} =>
                        /\ bpc' = "send"
                        /\ data' = LastIngested'
                        /\ connection' \in active_connections
        /\ ( /\ LastIngested'.type \in {"connect", "disconnect"}
             /\ passEnd' \in {"complete", "aborted"} ) =>
                  \A t \in passStart' :
                      \E i \in 1..Len(passLog') : passLog'[i].sub = t
      ]_vars

\* C16: the step that ends a pass during which no websocket attached or
\* detached leaves exactly one send attempt per connection registered when
\* the ingest was called, n attempts for n connections; when none of them
\* raised, each of the n connections was delivered the event and the
\* registry is as it was.
C16_OneAttemptEach ==
    [][ ( /\ passEnd' \in {"complete", "aborted"}
          /\ passEnd = "running" \/ Len(history') > Len(history)
          /\ ~passMutated' ) =>
            /\ Len(passLog') = Cardinality(passStart')
            /\ {passLog'[i].sub : i \in 1..Len(passLog')} = passStart'
            /\ (\A i \in 1..Len(passLog') : passLog'[i].res = "ok") =>
                  /\ \A t \in passStart' : Len(history') \in Got(t)'
                  /\ active_connections' = passStart'
                  /\ active_connections' = active_connections
      ]_vars

\* C16 witness: an undisturbed pass over every websocket has ended with no
\* failed send, and the registry still holds them all.
C16_Witness ==
    /\ passEnd = "complete"
    /\ bpc = "idle"
    /\ ~passMutated
    /\ passStart = Subs
    /\ Len(passLog) = NumSubs
    /\ \A i \in 1..Len(passLog) : passLog[i].res = "ok"
    /\ \A t \in Subs : Len(history) \in Got(t)
    /\ active_connections = Subs

\* C17: GET /api/status and GET /api/events are pure reads.  A step in
\* which one of them builds its response leaves the flag, the registry and
\* the buffer (and all the rest of the hub) as they are; the status
\* response holds the flag, the size of the registry and the length of the
\* buffer of that moment, the events response the buffer of that moment
\* and its length.
C17_QueriesArePureReads ==
    [][ resp' # NoResp =>
          /\ is_connected' = is_connected
          /\ active_connections' = active_connections
          /\ event_buffer' = event_buffer
          /\ hub' = hub
          /\ resp'.kind = "status" =>
                /\ resp'.body.connected = is_connected
                /\ resp'.body.active_websockets = Cardinality(active_connections)
                /\ resp'.body.buffered_events = Len(event_buffer)
          /\ resp'.kind = "events" =>
                /\ resp'.body.events = event_buffer
                /\ resp'.body.count = Len(event_buffer)
      ]_vars

\* C17 witness: GET /api/status has just answered while the upstream was
\* connected, a fan-out was suspended in a send, one websocket was
\* registered and the buffer was neither empty nor full.
C17_Witness ==
    /\ resp.kind = "status"
    /\ resp.body = [connected |-> TRUE, active_websockets |-> 1, buffered_events |-> 2]
    /\ bpc = "send"
    /\ is_connected
    /\ Cardinality(active_connections) = 1
    /\ Len(event_buffer) = 2

\* A step of the upstream handler: an ingest begins, or the fan-out resumes
\* from a send.
IngestStep ==
    \/ Len(history') > Len(history)
    \/ bpc = "send" /\ (bpc' = "idle" \/ passLog' # passLog)

\* C18: a step of an ingest takes out of the registry only connections
\* whose send raised in the pass of that ingest; a connection whose send
\* in the pass succeeded, or to which the pass attempted no send, stays.
C18_OnlyFailedAreRemoved ==
    [][ IngestStep =>
          /\ active_connections' \subseteq active_connections
          /\ \A s \in active_connections \ active_connections' :
                /\ Attempts(s)' # {}
                /\ \A i \in Attempts(s)' : passLog'[i].res = "raise"
      ]_vars

\* C18 witness: a pass has ended; it removed the connection whose send
\* raised and left the one whose send succeeded.
C18_Witness ==
    /\ passEnd = "complete"
    /\ bpc = "idle"
    /\ \E s, t \in passStart :
          /\ s \notin active_connections
          /\ t \in active_connections
          /\ \E i \in Attempts(s) : passLog[i].res = "raise"
          /\ \E i \in Attempts(t) : passLog[i].res = "ok"

\* The positions of history that hold a lifecycle announcement.
LifecycleAt == {i \in 1..Len(history) : history[i].type \in {"connect", "disconnect"}}

\* C19: in every state the flag is up exactly when the last lifecycle
\* announcement appended to the buffer is the connect announcement (and
\* down when there has been none).
C19_FlagMatchesLastLifecycleEvent ==
    is_connected <=>
        \E i \in LifecycleAt :
            /\ history[i].type = "connect"
            /\ \A j \in LifecycleAt : j <= i

\* C19 witness: the upstream has connected, disconnected and connected
\* again, a viewer event followed, and its fan-out is suspended in a send.
C19_Witness ==
    /\ is_connected
    /\ bpc = "send"
    /\ LastIngested.type = "viewer"
    /\ \E i, j \in LifecycleAt :
          i < j /\ history[i].type = "disconnect" /\ history[j].type = "connect"

====
